---- MODULE Spec2Model ----
(***************************************************************************)
(* Contact-form relay: the serverless /api/contact handler in its three   *)
(* source variants (api/contact.js, and the two unnamed handler files),   *)
(* its validators and its in-memory sliding-window rate limiter.          *)
(*                                                                         *)
(* Strings are sequences of one-character strings; the JavaScript value   *)
(* `undefined` is the distinguished value `undefined` below.  The clock   *)
(* (Date.now()) is the variable `now`, in milliseconds.                    *)
(***************************************************************************)
EXTENDS Integers, Sequences, FiniteSets, TLC

(***************************************************************************)
(* Bounds of the model.  RATE_LIMIT_MAX and windowMs are the configured    *)
(* cap and window, scaled down from the defaults 5 and 60 min.            *)
(***************************************************************************)
RATE_LIMIT_MAX == 2

windowMs == 3

MaxTime == 6

MaxChecks == 5

MaxEmailLen == 5

MaxRequests == 3

MaxClock == 1
\* submit events on one page
MaxSubmits == 2

(***************************************************************************)
(* Strings                                                                 *)
(***************************************************************************)
Char == {"a", "A", "@", ".", " "}

\* the characters the validation inputs are drawn from
EmailChar == {"a", "@", ".", " "}

undefined == <<"undefined">>

IsSpace(c) == c = " "

Str(n) == UNION {[1..k -> EmailChar] : k \in 0..n}

\* String.prototype.toLowerCase
toLowerCase(s) == [i \in 1..Len(s) |-> IF s[i] = "A" THEN "a" ELSE s[i]]

\* JavaScript truthiness of a string-or-undefined value
Truthy(v) == v # undefined /\ v # <<>>

\* a || b
Or(a, b) == IF Truthy(a) THEN a ELSE b

RECURSIVE trimStart(_)
trimStart(s) ==
  IF s # <<>> /\ IsSpace(Head(s)) THEN trimStart(Tail(s)) ELSE s

RECURSIVE trimEnd(_)
trimEnd(s) ==
  IF s # <<>> /\ IsSpace(s[Len(s)]) THEN trimEnd(SubSeq(s, 1, Len(s) - 1)) ELSE s

\* String.prototype.trim
trim(s) == trimEnd(trimStart(s))

\* the character class [^\s@]
NotSpaceAt(c) == ~IsSpace(c) /\ c # "@"

\* s[a..b] matches [^\s@]+
Plus(s, a, b) == a <= b /\ \A i \in a..b : NotSpaceAt(s[i])

\* mutant: the pattern without the literal dot, /^[^\s@]+@[^\s@]+$/
isValidEmail_NoDot(email) ==
  \E i \in 1..Len(email) :
    /\ email[i] = "@"
    /\ Plus(email, 1, i - 1)
    /\ Plus(email, i + 1, Len(email))

\* /^[^\s@]+@[^\s@]+\.[^\s@]+$/.test(email)
isValidEmail(email) ==
  \E i \in 1..Len(email) : \E j \in 1..Len(email) :
    /\ i < j
    /\ email[i] = "@"
    /\ email[j] = "."
    /\ Plus(email, 1, i - 1)
    /\ Plus(email, i + 1, j - 1)
    /\ Plus(email, j + 1, Len(email))

(***************************************************************************)
(* Rate limiter (checkRateLimit)                                           *)
(***************************************************************************)
\* rateLimitStore.get(identifier), after the has/set of an unseen identifier
Get(store, identifier) ==
  IF identifier \in DOMAIN store THEN store[identifier] ELSE <<>>

\* Map.prototype.set
Set(store, identifier, value) ==
  [k \in DOMAIN store \cup {identifier} |->
     IF k = identifier THEN value ELSE store[k]]

\* mutant: the window is one millisecond short
validRequests_Short(requests, t) ==
  SelectSeq(requests, LAMBDA time : t - time < windowMs - 1)

\* mutant: the operands of the age are swapped, no entry ever leaves
validRequests_Swapped(requests, t) ==
  SelectSeq(requests, LAMBDA time : time - t < windowMs)

\* mutant: an entry exactly one window old still counts (<= for <)
validRequests_Inclusive(requests, t) ==
  SelectSeq(requests, LAMBDA time : t - time <= windowMs)

\* requests.filter(time => now - time < windowMs)
validRequests(requests, t) ==
  SelectSeq(requests, LAMBDA time : t - time < windowMs)

\* mutant: off by one in the capacity test (> for >=)
atCapacity_OffByOne(valid) == Len(valid) > RATE_LIMIT_MAX

\* validRequests.length >= RATE_LIMIT_MAX
atCapacity(valid) == Len(valid) >= RATE_LIMIT_MAX

\* mutant: an admitted timestamp is stored alone, the earlier ones dropped
recorded_Overwrite(store, identifier, t) ==
  LET requests == Get(store, identifier)
      valid    == validRequests(requests, t)
  IN  IF atCapacity(valid)
        THEN Set(store, identifier, requests)
        ELSE Set(store, identifier, <<t>>)

\* mutant: the timestamp is pushed before the capacity test, so a denied
\* check is recorded too
recorded_OnDeny(store, identifier, t) ==
  LET valid == validRequests(Get(store, identifier), t)
  IN  Set(store, identifier, Append(valid, t))

\* mutant: the new timestamp is pushed on the unfiltered list
recorded_NoFilter(store, identifier, t) ==
  LET requests == Get(store, identifier)
      valid    == validRequests(requests, t)
  IN  IF atCapacity(valid)
        THEN Set(store, identifier, requests)
        ELSE Set(store, identifier, Append(requests, t))

\* the store after checkRateLimit(identifier) at time t
recorded(store, identifier, t) ==
  LET requests == Get(store, identifier)
      valid    == validRequests(requests, t)
  IN  IF atCapacity(valid)
        THEN Set(store, identifier, requests)
        ELSE Set(store, identifier, Append(valid, t))

\* mutant: one list shared by all identifiers
storeKey_Shared(identifier) == "unknown"

\* the key under which an identifier's timestamps are kept
storeKey(identifier) == identifier

\* checkRateLimit(identifier) at time t: the decision and the new store
checkRateLimit(store, identifier, t) ==
  LET key   == storeKey(identifier)
      valid == validRequests(Get(store, key), t)
  IN  [ok |-> ~atCapacity(valid), store |-> recorded(store, key, t)]

(***************************************************************************)
(* The remote counter store: the Upstash Redis rate limiter that the       *)
(* handlers carry as a commented block (checkRateLimitRedis of part_003,   *)
(* step 5 of part_002), to be enabled for production.                      *)
(***************************************************************************)
\* `ratelimit:${identifier}` of part_003
redisKey(identifier) == "ratelimit:" \o identifier

\* `rate_limit:${clientIp}` of part_002
redisKey2(identifier) == "rate_limit:" \o identifier

\* what a call to the store can come to: it is applied and answered, or it
\* fails (the store is unreachable) and throws
RedisReplies == {"ok", "error"}

\* the window as the time-to-live handed to Redis, in the clock's unit
windowSeconds == windowMs

\* the key exists at time t: it was set and has not expired
Live(rds, key, t) ==
  key \in DOMAIN rds /\ (rds[key].expires => t < rds[key].at)

\* INCR key: a missing key counts from 0 and is created without an expiry
incr(rds, key, t) ==
  LET entry == IF Live(rds, key, t)
                 THEN [rds[key] EXCEPT !.count = @ + 1]
                 ELSE [count |-> 1, expires |-> FALSE, at |-> 0]
  IN  [count |-> entry.count, redis |-> Set(rds, key, entry)]

\* EXPIRE key seconds
expire(rds, key, seconds, t) ==
  IF Live(rds, key, t)
    THEN Set(rds, key, [rds[key] EXCEPT !.expires = TRUE, !.at = t + seconds])
    ELSE rds

\* mutant: the count is compared with < in place of <=
checkRateLimitRedis_Strict(rds, identifier, t) ==
  LET key == redisKey(identifier)
      a   == incr(rds, key, t)
  IN  [ok    |-> a.count < RATE_LIMIT_MAX,
       redis |-> IF a.count = 1
                   THEN expire(a.redis, key, windowSeconds, t)
                   ELSE a.redis]

\* checkRateLimitRedis(identifier) at time t, both calls answered at once:
\* the decision and the new keys
checkRateLimitRedis(rds, identifier, t) ==
  LET key == redisKey(identifier)
      a   == incr(rds, key, t)
  IN  [ok    |-> a.count <= RATE_LIMIT_MAX,
       redis |-> IF a.count = 1
                   THEN expire(a.redis, key, windowSeconds, t)
                   ELSE a.redis]

(***************************************************************************)
(* State                                                                   *)
(***************************************************************************)
VARIABLES
  variant,         \* which handler file is deployed
  env,             \* process.env: which optional settings are configured
  now,             \* Date.now()
  rateLimitStore,  \* the Map identifier -> timestamps
  reqs,            \* the request handlers in flight
  arrivals,        \* number of requests received so far
  done,            \* the invocation that returned in the step just taken
  checks,          \* history of the admission checks made
  redis,           \* the Upstash Redis keys: key -> count and expiry
  page             \* the browser page with the form and its submit script

vars ==
  <<variant, env, now, rateLimitStore, reqs, arrivals, done, checks, redis,
    page>>

\* no page: the requests come from any client
NoPage == [script |-> "none"]

Variants == {"contact", "part_002", "part_003"}

Envs == [RECAPTCHA_SECRET : BOOLEAN, SENDGRID : BOOLEAN, UPSTASH : {FALSE}]

\* the Upstash Redis rate limiter block in use in place of its comment
RemoteEnvs == [RECAPTCHA_SECRET : {FALSE}, SENDGRID : BOOLEAN, UPSTASH : {TRUE}]

\* two concurrent invocations of the handler
Slots == {1, 2}

Idle == [pc |-> "idle", n |-> 0]

\* the history entry of one admission check
CheckEntry(n, store, identifier, t, inflight) ==
  LET requests == Get(store, storeKey(identifier))
      res      == checkRateLimit(store, identifier, t)
  IN  [n |-> n, id |-> identifier, t |-> t, ok |-> res.ok,
       before |-> requests, valid |-> validRequests(requests, t),
       inflight |-> inflight]

Last(s) == s[Len(s)]

(***************************************************************************)
(* The clock                                                               *)
(***************************************************************************)
Tick ==
  /\ now < MaxTime
  /\ now' = now + 1
  /\ done' = Idle
  /\ UNCHANGED <<variant, env, rateLimitStore, reqs, arrivals, checks, redis,
                 page>>

(***************************************************************************)
(* SpecLimiter: checkRateLimit called directly, for any identifier at any  *)
(* non-decreasing time                                                     *)
(***************************************************************************)
Identifiers == {"ip1", "ip2"}

LimiterCheck(k) ==
  /\ Len(checks) < MaxChecks
  /\ rateLimitStore' = checkRateLimit(rateLimitStore, k, now).store
  /\ checks' = Append(checks, CheckEntry(0, rateLimitStore, k, now, {}))
  /\ done' = Idle
  /\ UNCHANGED <<variant, env, now, reqs, arrivals, redis, page>>

InitLimiter ==
  /\ variant = "contact"
  /\ env = [RECAPTCHA_SECRET |-> FALSE, SENDGRID |-> TRUE]
  /\ now = 0
  /\ rateLimitStore = <<>>
  /\ reqs = [r \in Slots |-> Idle]
  /\ arrivals = 0
  /\ done = Idle
  /\ checks = <<>>
  /\ redis = <<>>
  /\ page = NoPage

NextLimiter == Tick \/ \E k \in Identifiers : LimiterCheck(k)

SpecLimiter == InitLimiter /\ [][NextLimiter]_vars

(***************************************************************************)
(* Requests and responses                                                  *)
(***************************************************************************)
\* res.status(..).json({ ok: false, error }) of contact.js and part_002
Err(error) ==
  [ok |-> "false", success |-> "undefined", error |-> error,
   message |-> "undefined"]

\* res.status(..).json({ error, details }) of part_003
Err3(error) ==
  [ok |-> "undefined", success |-> "undefined", error |-> error,
   message |-> "undefined"]

\* res.status(200).json({ ok: true })
Ok ==
  [ok |-> "true", success |-> "undefined", error |-> "undefined",
   message |-> "undefined"]

\* res.status(200).json({ success: true, message }) of part_003
Ok3(message) ==
  [ok |-> "undefined", success |-> "true", error |-> "undefined",
   message |-> message]

\* res.status(200).end()
End ==
  [ok |-> "undefined", success |-> "undefined", error |-> "undefined",
   message |-> "undefined"]

\* a handler invocation: the request, where the handler stands, and what it
\* has done so far (outbound calls made, response sent)
Invocation(n, input) ==
  [pc |-> "start", n |-> n, method |-> input.method,
   hasBody |-> input.hasBody, body |-> input.body, headers |-> input.headers, status |-> 0, resp |-> End,
   verifies |-> 0, sends |-> 0, responses |-> 0]

\* mutant: every response records the request in the admission store
Reply_Recording(cx, status, resp) ==
  [cx EXCEPT !.q.pc = "done", !.q.status = status, !.q.resp = resp,
             !.q.responses = @ + 1,
             !.store = recorded(cx.store, "unknown", cx.t)]

\* res.status(status).json(resp); return
Reply(cx, status, resp) ==
  [cx EXCEPT !.q.pc = "done", !.q.status = status, !.q.resp = resp,
             !.q.responses = @ + 1]

\* await fetch(siteverify)
AwaitVerify(cx) == [cx EXCEPT !.q.pc = "verify", !.q.verifies = @ + 1]

\* await fetch(sendgrid) / await sgMail.send
AwaitSend(cx) == [cx EXCEPT !.q.pc = "send", !.q.sends = @ + 1]

\* await redis.incr(key)
AwaitIncr(cx) == [cx EXCEPT !.q.pc = "incr"]

\* await redis.expire(key, seconds), reached with a count of 1
AwaitExpire(cx) == [cx EXCEPT !.q.pc = "expire"]

\* if (!checkRateLimit(identifier)): the call's effect on the store
Admit(cx, identifier) ==
  [cx EXCEPT
     !.store = checkRateLimit(cx.store, identifier, cx.t).store,
     !.checks = Append(@, CheckEntry(cx.q.n, cx.store, identifier, cx.t,
                                     cx.inflight))]

\* mutant: the result of the admission check is ignored
Admitted_Always(cx, identifier) == TRUE

\* if (!checkRateLimit(identifier)): the call's result
Admitted(cx, identifier) == checkRateLimit(cx.store, identifier, cx.t).ok

(***************************************************************************)
(* Bot verification answers and provider answers                           *)
(***************************************************************************)
ScoreThreshold == 4

ScoreThreshold3 == 5

\* what the siteverify call can produce: a JSON answer, with or without a
\* score (in tenths), or a network error / unparsable answer
VerifyReplies ==
  [kind : {"json"}, success : BOOLEAN, hasScore : BOOLEAN,
   score : {ScoreThreshold - 1, ScoreThreshold, ScoreThreshold3}]
  \cup {[kind |-> "error", success |-> FALSE, hasScore |-> FALSE,
         score |-> 0]}

\* what the provider call can produce: an HTTP status, or a rejected promise
SendReplies ==
  [kind : {"status"}, status : {202, 400, 500}]
  \cup {[kind |-> "error", status |-> 0]}

\* verifyRecaptcha of contact.js: result.success
verifyRecaptcha(reply) ==
  /\ reply.kind = "json"
  /\ reply.success
  /\ reply.hasScore
  /\ reply.score >= ScoreThreshold

\* verifyRecaptcha of part_002: result.valid
verifyRecaptcha2(reply) ==
  /\ reply.kind = "json"
  /\ reply.success
  /\ ~(reply.hasScore /\ reply.score < ScoreThreshold)

\* verifyRecaptcha of part_003, with a token: the returned boolean
verifyRecaptcha3(reply) ==
  /\ reply.kind = "json"
  /\ reply.success
  /\ reply.hasScore
  /\ reply.score >= ScoreThreshold3

\* response.ok / statusCode in 200..299
Is2xx(status) == status >= 200 /\ status < 300

(***************************************************************************)
(* handler of api/contact.js                                               *)
(***************************************************************************)
\* sendEmail, to its fetch: the configuration test throws into the catch
contact_sendEmail(cx) ==
  IF ~env.SENDGRID
    THEN Reply(cx, 500, Err("Server error. Please try again later."))
    ELSE AwaitSend(cx)

\* mutant: the email identifies the submitter as it was typed
contact_identifier_Raw(email) == email

\* const identifier = email.toLowerCase()
contact_identifier(email) == toLowerCase(email)

contact_handler(cx) ==
  LET body  == cx.q.body
      email == Or(body._replyto, body.email)
  IN  IF cx.q.method = "OPTIONS" THEN Reply(cx, 200, End)
      ELSE IF cx.q.method # "POST"
        THEN Reply(cx, 405, Err("Method not allowed"))
      ELSE IF ~cx.q.hasBody
        THEN Reply(cx, 500, Err("Server error. Please try again later."))
      ELSE IF Truthy(body.website) /\ trim(body.website) # <<>>
        THEN Reply(cx, 400, Err("Spam detected"))
      ELSE IF ~Truthy(body.name) \/ ~Truthy(trim(body.name))
        THEN Reply(cx, 400, Err("Name is required"))
      ELSE IF ~Truthy(email) \/ ~Truthy(trim(email))
        THEN Reply(cx, 400, Err("Email is required"))
      ELSE IF ~Truthy(body.message) \/ ~Truthy(trim(body.message))
        THEN Reply(cx, 400, Err("Message is required"))
      ELSE IF ~isValidEmail(email)
        THEN Reply(cx, 400, Err("Invalid email format"))
      ELSE LET identifier == contact_identifier(email)
               cx1        == Admit(cx, identifier)
           IN  IF ~Admitted(cx, identifier)
                 THEN Reply(cx1, 429,
                        Err("Rate limit exceeded. Please try again later."))
               ELSE IF Truthy(body.recaptchaToken) /\ env.RECAPTCHA_SECRET
                 THEN AwaitVerify(cx1)
               ELSE contact_sendEmail(cx1)

\* after await verifyRecaptcha(body.recaptchaToken)
contact_verified(cx, reply) ==
  IF ~verifyRecaptcha(reply)
    THEN Reply(cx, 400, Err("reCAPTCHA verification failed"))
    ELSE contact_sendEmail(cx)

\* mutant: a failed send is attempted once more
contact_sent_Retry(cx, reply) ==
  IF reply.kind = "status" /\ Is2xx(reply.status)
    THEN Reply(cx, 200, Ok)
  ELSE IF cx.q.sends < 2
    THEN AwaitSend(cx)
  ELSE Reply(cx, 500, Err("Server error. Please try again later."))

\* mutant: a failed send takes the request's timestamp back out of the store
contact_sent_Rollback(cx, reply) ==
  LET identifier == toLowerCase(Or(cx.q.body._replyto, cx.q.body.email))
      requests   == Get(cx.store, identifier)
      cx1        == [cx EXCEPT !.store =
                       Set(cx.store, identifier,
                           SubSeq(requests, 1, Len(requests) - 1))]
  IN  IF reply.kind = "status" /\ Is2xx(reply.status)
        THEN Reply(cx, 200, Ok)
        ELSE Reply(cx1, 500, Err("Server error. Please try again later."))

\* after the fetch of sendEmail: a non-2xx answer or a network error is
\* thrown into the handler's catch
contact_sent(cx, reply) ==
  IF reply.kind = "status" /\ Is2xx(reply.status)
    THEN Reply(cx, 200, Ok)
    ELSE Reply(cx, 500, Err("Server error. Please try again later."))

(***************************************************************************)
(* handler of part_002                                                     *)
(***************************************************************************)
\* req.headers['x-forwarded-for'] || req.headers['x-real-ip'] || 'unknown'
clientIp(headers) ==
  IF headers.xff # "" THEN headers.xff
  ELSE IF headers.xreal # "" THEN headers.xreal
  ELSE "unknown"

\* step 6: configuration test, then sendEmail to its fetch
part_002_send(cx) ==
  IF ~env.SENDGRID
    THEN Reply(cx, 500, Err("Server configuration error"))
    ELSE AwaitSend(cx)

\* step 5: rate limiting
part_002_admission(cx) ==
  LET identifier == clientIp(cx.q.headers)
      cx1        == Admit(cx, identifier)
  IN  IF ~Admitted(cx, identifier)
        THEN Reply(cx1, 429, Err("Too many requests. Please try again later."))
      ELSE IF env.UPSTASH
        THEN AwaitIncr(cx1)
      ELSE part_002_send(cx1)

\* if (current > maxRequests), for the count the store answered
part_002_counted(cx, current) ==
  IF current > RATE_LIMIT_MAX
    THEN Reply(cx, 429, Err("Too many requests. Please try again later."))
    ELSE part_002_send(cx)

\* after await redis.incr(key); a failed call goes to the catch, which
\* continues with the request
part_002_incremented(cx, reply) ==
  LET key == redisKey2(clientIp(cx.q.headers))
      a   == incr(cx.redis, key, cx.t)
      cx1 == [cx EXCEPT !.redis = a.redis]
  IN  IF reply = "error" THEN part_002_send(cx)
      ELSE IF a.count = 1 THEN AwaitExpire(cx1)
      ELSE part_002_counted(cx1, a.count)

\* after await redis.expire(key, windowMinutes * 60)
part_002_expired(cx, reply) ==
  LET key == redisKey2(clientIp(cx.q.headers))
      cx1 == [cx EXCEPT !.redis = expire(cx.redis, key, windowSeconds, cx.t)]
  IN  IF reply = "error" THEN part_002_send(cx)
      ELSE part_002_counted(cx1, 1)

part_002_handler(cx) ==
  LET body == cx.q.body
  IN  IF cx.q.method # "POST"
        THEN Reply(cx, 405, Err("Method not allowed"))
      ELSE IF ~cx.q.hasBody
        THEN Reply(cx, 500, Err("An unexpected error occurred"))
      ELSE
        LET name           == Or(body.name, <<>>)
            replyto        == Or(Or(body._replyto, body.email), <<>>)
            message        == Or(body.message, <<>>)
            website        == Or(body.website, <<>>)
            recaptchaToken == Or(body.recaptchaToken, <<>>)
        IN  IF website # <<>>
              THEN Reply(cx, 400, Err("Invalid submission"))
            ELSE IF ~Truthy(trim(name))
              THEN Reply(cx, 400, Err("Name is required"))
            ELSE IF ~Truthy(trim(replyto))
              THEN Reply(cx, 400, Err("Email is required"))
            ELSE IF ~Truthy(trim(message))
              THEN Reply(cx, 400, Err("Message is required"))
            ELSE IF ~isValidEmail(replyto)
              THEN Reply(cx, 400, Err("Invalid email format"))
            ELSE IF env.RECAPTCHA_SECRET /\ Truthy(recaptchaToken)
              THEN AwaitVerify(cx)
            ELSE part_002_admission(cx)

\* after await verifyRecaptcha(recaptchaToken, recaptchaSecret)
part_002_verified(cx, reply) ==
  IF ~verifyRecaptcha2(reply)
    THEN Reply(cx, 400, Err("reCAPTCHA verification failed"))
    ELSE part_002_admission(cx)

\* mutant: the provider's status is echoed in the response body
part_002_sent_Leak(cx, reply) ==
  IF reply.kind = "status" /\ Is2xx(reply.status)
    THEN Reply(cx, 200, Ok)
  ELSE IF reply.kind = "status" /\ reply.status < 500
    THEN Reply(cx, 500, Err("SendGrid rejected the message"))
  ELSE Reply(cx, 500, Err("Failed to send message. Please try again."))

\* after await sendEmail(..): sendResult.success
part_002_sent(cx, reply) ==
  IF reply.kind = "status" /\ Is2xx(reply.status)
    THEN Reply(cx, 200, Ok)
    ELSE Reply(cx, 500, Err("Failed to send message. Please try again."))

(***************************************************************************)
(* handler of part_003                                                     *)
(***************************************************************************)
\* req.headers['x-forwarded-for'] || req.connection.remoteAddress || 'unknown'
identifier3(headers) ==
  IF headers.xff # "" THEN headers.xff
  ELSE IF headers.remote # "" THEN headers.remote
  ELSE "unknown"

\* the configuration test, then sgMail.send
part_003_send(cx) ==
  IF ~env.SENDGRID
    THEN Reply(cx, 500, Err3("Server configuration error"))
    ELSE AwaitSend(cx)

\* rate limiting: checkRateLimit, or checkRateLimitRedis in its place
part_003_admission(cx) ==
  LET identifier == identifier3(cx.q.headers)
      cx1        == Admit(cx, identifier)
  IN  IF env.UPSTASH
        THEN AwaitIncr(cx)
      ELSE IF ~Admitted(cx, identifier)
        THEN Reply(cx1, 429, Err3("Too many requests"))
      ELSE part_003_send(cx1)

\* return count <= maxRequests, and the handler's test of it
part_003_counted(cx, count) ==
  IF ~(count <= RATE_LIMIT_MAX)
    THEN Reply(cx, 429, Err3("Too many requests"))
    ELSE part_003_send(cx)

\* after await redis.incr(key); a failed call throws to the handler's catch
part_003_incremented(cx, reply) ==
  LET key == redisKey(identifier3(cx.q.headers))
      a   == incr(cx.redis, key, cx.t)
      cx1 == [cx EXCEPT !.redis = a.redis]
  IN  IF reply = "error" THEN Reply(cx, 500, Err3("Internal server error"))
      ELSE IF a.count = 1 THEN AwaitExpire(cx1)
      ELSE part_003_counted(cx1, a.count)

\* after await redis.expire(key, windowSeconds)
part_003_expired(cx, reply) ==
  LET key == redisKey(identifier3(cx.q.headers))
      cx1 == [cx EXCEPT !.redis = expire(cx.redis, key, windowSeconds, cx.t)]
  IN  IF reply = "error" THEN Reply(cx, 500, Err3("Internal server error"))
      ELSE part_003_counted(cx1, 1)

part_003_handler(cx) ==
  LET body == cx.q.body
  IN  IF cx.q.method = "OPTIONS" THEN Reply(cx, 200, End)
      ELSE IF cx.q.method # "POST"
        THEN Reply(cx, 405, Err3("Method not allowed"))
      ELSE IF ~cx.q.hasBody
        THEN Reply(cx, 500, Err3("Internal server error"))
      ELSE IF Truthy(body.website)
        THEN Reply(cx, 200, Ok3("Message received"))
      ELSE IF ~Truthy(body.name) \/ ~Truthy(body._replyto)
                \/ ~Truthy(body.message)
        THEN Reply(cx, 400, Err3("Missing required fields"))
      ELSE IF ~isValidEmail(body._replyto)
        THEN Reply(cx, 400, Err3("Invalid email format"))
      ELSE IF env.RECAPTCHA_SECRET
        THEN IF ~Truthy(body.g_recaptcha_response)
               THEN Reply(cx, 400, Err3("reCAPTCHA verification failed"))
               ELSE AwaitVerify(cx)
      ELSE part_003_admission(cx)

\* after await verifyRecaptcha(recaptchaToken)
part_003_verified(cx, reply) ==
  IF ~verifyRecaptcha3(reply)
    THEN Reply(cx, 400, Err3("reCAPTCHA verification failed"))
    ELSE part_003_admission(cx)

\* mutant: no catch around the send, a thrown error leaves the handler
\* without a response
part_003_sent_Unhandled(cx, reply) ==
  IF reply.kind = "error"
    THEN [cx EXCEPT !.q.pc = "done"]
  ELSE IF Is2xx(reply.status)
    THEN Reply(cx, 200, Ok3("Your message has been sent successfully"))
  ELSE Reply(cx, 500, Err3("Failed to send email"))

\* after await sgMail.send(emailData): the resolved status, or the catch
part_003_sent(cx, reply) ==
  IF reply.kind = "error"
    THEN Reply(cx, 500, Err3("Internal server error"))
  ELSE IF Is2xx(reply.status)
    THEN Reply(cx, 200, Ok3("Your message has been sent successfully"))
  ELSE Reply(cx, 500, Err3("Failed to send email"))

(***************************************************************************)
(* What each handler hands to the email provider                           *)
(***************************************************************************)
\* the formData argument of sendEmail in contact.js
contact_formData(body) ==
  [name    |-> trim(body.name),
   email   |-> trim(Or(body._replyto, body.email)),
   service |-> IF Truthy(body.service) THEN trim(body.service) ELSE <<>>,
   message |-> trim(body.message)]

\* the fields part_002 writes into the subject and the content of the mail
part_002_emailContent(body) ==
  [name    |-> Or(body.name, <<>>),
   email   |-> Or(Or(body._replyto, body.email), <<>>),
   service |-> Or(body.service, <<>>),
   message |-> Or(body.message, <<>>)]

\* the fields of emailData in part_003, which has no service
part_003_emailData(body) ==
  [name    |-> body.name,
   email   |-> body._replyto,
   service |-> undefined,
   message |-> body.message]

\* the fields handed to the provider by the deployed handler
Handed(body) ==
  CASE variant = "contact" -> contact_formData(body)
    [] variant = "part_002" -> part_002_emailContent(body)
    [] variant = "part_003" -> part_003_emailData(body)

(***************************************************************************)
(* The handler's steps.  JavaScript runs each handler to its next await    *)
(* without interleaving, so each step is one action.                       *)
(***************************************************************************)
InFlight(r) == reqs[r].pc \in {"verify", "send", "incr", "expire"}

\* the invocations in flight besides r
Others(r) == {reqs[o].n : o \in {o \in Slots : o # r /\ InFlight(o)}}

Cx(r, q) ==
  [q |-> q, store |-> rateLimitStore, checks |-> checks, t |-> now,
   inflight |-> Others(r), redis |-> redis]

\* a handler that has returned leaves its slot; its invocation is kept in done
Commit(r, cx) ==
  /\ reqs' = [reqs EXCEPT ![r] = IF cx.q.pc = "done" THEN Idle ELSE cx.q]
  /\ done' = IF cx.q.pc = "done" THEN cx.q ELSE Idle
  /\ rateLimitStore' = cx.store
  /\ checks' = cx.checks
  /\ redis' = cx.redis

\* the lowest slot not in flight takes the next request
FreeSlot(r) ==
  /\ ~InFlight(r)
  /\ \A o \in Slots : o < r => InFlight(o)

\* a request arrives and the handler runs to its first await or response
handler(r, input) ==
  /\ FreeSlot(r)
  /\ arrivals' = arrivals + 1
  /\ LET cx == Cx(r, Invocation(arrivals + 1, input))
     IN  \/ variant = "contact" /\ Commit(r, contact_handler(cx))
         \/ variant = "part_002" /\ Commit(r, part_002_handler(cx))
         \/ variant = "part_003" /\ Commit(r, part_003_handler(cx))
  /\ UNCHANGED <<variant, env, now, page>>

\* the verification service answers (or the call fails)
verified(r, reply) ==
  /\ reqs[r].pc = "verify"
  /\ LET cx == Cx(r, reqs[r])
     IN  \/ variant = "contact" /\ Commit(r, contact_verified(cx, reply))
         \/ variant = "part_002" /\ Commit(r, part_002_verified(cx, reply))
         \/ variant = "part_003" /\ Commit(r, part_003_verified(cx, reply))
  /\ UNCHANGED <<variant, env, now, arrivals, page>>

\* the email provider answers (or the call fails)
sent(r, reply) ==
  /\ reqs[r].pc = "send"
  /\ LET cx == Cx(r, reqs[r])
     IN  \/ variant = "contact" /\ Commit(r, contact_sent(cx, reply))
         \/ variant = "part_002" /\ Commit(r, part_002_sent(cx, reply))
         \/ variant = "part_003" /\ Commit(r, part_003_sent(cx, reply))
  /\ UNCHANGED <<variant, env, now, arrivals, page>>

\* the store answers the increment (or the call fails)
incremented(r, reply) ==
  /\ reqs[r].pc = "incr"
  /\ LET cx == Cx(r, reqs[r])
     IN  \/ variant = "part_002" /\ Commit(r, part_002_incremented(cx, reply))
         \/ variant = "part_003" /\ Commit(r, part_003_incremented(cx, reply))
  /\ UNCHANGED <<variant, env, now, arrivals, page>>

\* the store answers the expiry (or the call fails)
expired(r, reply) ==
  /\ reqs[r].pc = "expire"
  /\ LET cx == Cx(r, reqs[r])
     IN  \/ variant = "part_002" /\ Commit(r, part_002_expired(cx, reply))
         \/ variant = "part_003" /\ Commit(r, part_003_expired(cx, reply))
  /\ UNCHANGED <<variant, env, now, arrivals, page>>

(***************************************************************************)
(* Spec: concurrent requests through the whole pipeline                    *)
(***************************************************************************)
NoHeaders == [xff |-> "", xreal |-> "", remote |-> ""]

From(ip) == [NoHeaders EXCEPT !.xff = ip]

NoBody ==
  [name |-> undefined, _replyto |-> undefined, email |-> undefined,
   message |-> undefined, service |-> undefined, website |-> undefined,
   recaptchaToken |-> undefined, g_recaptcha_response |-> undefined]

\* { name, _replyto, message }
Valid(replyto) ==
  [NoBody EXCEPT !.name = <<"a">>, !._replyto = replyto, !.message = <<"a">>]

Token(body) ==
  [body EXCEPT !.recaptchaToken = <<"a">>, !.g_recaptcha_response = <<"a">>]

Post(body, headers) ==
  [method |-> "POST", hasBody |-> TRUE, body |-> body, headers |-> headers]

\* a request whose req.body is undefined
Bare(method, headers) ==
  [method |-> method, hasBody |-> FALSE, body |-> NoBody, headers |-> headers]

Email1 == <<"a", "@", "a", ".", "a">>

Email2 == <<"a", "a", "@", "a", ".", "a">>

Inputs ==
  { Post(Valid(Email1), From("ip1")),
    Post(Token(Valid(Email1)), From("ip1")),
    Post(Valid(Email2), From("ip2")),
    Post([Valid(Email1) EXCEPT !.website = <<"a">>], From("ip1")),
    Post([Valid(Email1) EXCEPT !.name = undefined], From("ip1")),
    Bare("GET", From("ip1")),
    Bare("POST", From("ip1")) }

Init ==
  /\ variant \in Variants
  /\ env \in Envs
  /\ now = 0
  /\ rateLimitStore = <<>>
  /\ reqs = [r \in Slots |-> Idle]
  /\ arrivals = 0
  /\ done = Idle
  /\ checks = <<>>
  /\ redis = <<>>
  /\ page = NoPage

Next ==
  \/ now < MaxClock /\ Tick
  \/ /\ arrivals < MaxRequests
     /\ \E r \in Slots : \E input \in Inputs : handler(r, input)
  \/ \E r \in Slots : \E reply \in VerifyReplies : verified(r, reply)
  \/ \E r \in Slots : \E reply \in SendReplies : sent(r, reply)

Spec == Init /\ [][Next]_vars

(***************************************************************************)
(* SpecValidation: one request, its payload drawn from every combination   *)
(* of absent, empty, blank and filled fields, and from every email of up   *)
(* to MaxEmailLen characters                                               *)
(***************************************************************************)
Blank == <<" ">>

Padded == <<" ", "a", " ">>

\* a valid address with whitespace around it
PaddedEmail == <<" ">> \o Email1 \o <<" ">>

PresenceBodies ==
  [name : {undefined, <<>>, Blank, <<"a">>, Padded},
   _replyto : {undefined, <<>>, Blank, Email1, PaddedEmail},
   email : {undefined, Blank, Email1, <<"a">>},
   message : {undefined, <<>>, Blank, <<"a">>},
   service : {undefined, Padded},
   website : {undefined, <<>>, Blank, <<"a">>},
   recaptchaToken : {undefined},
   g_recaptcha_response : {undefined}]

EmailBodies ==
  [name : {<<"a">>},
   _replyto : Str(MaxEmailLen),
   email : {undefined},
   message : {<<"a">>},
   service : {undefined},
   website : {undefined},
   recaptchaToken : {undefined, <<"a">>},
   g_recaptcha_response : {undefined}]

ValidationInputs ==
  {Post(body, From("ip1")) : body \in PresenceBodies \cup EmailBodies}
    \cup {Bare("GET", From("ip1")), Bare("OPTIONS", From("ip1"))}

NextValidation ==
  \/ /\ arrivals = 0
     /\ \E r \in Slots : \E input \in ValidationInputs : handler(r, input)
  \/ \E r \in Slots : \E reply \in VerifyReplies : verified(r, reply)
  \/ \E r \in Slots : \E reply \in SendReplies : sent(r, reply)

SpecValidation == Init /\ [][NextValidation]_vars

(***************************************************************************)
(* Properties of the admission controller                                  *)
(***************************************************************************)
LoggedIds == {checks[i].id : i \in DOMAIN checks}

ChecksOf(k) == SelectSeq(checks, LAMBDA e : e.id = k)

\* the admitted checks for k whose timestamps lie in (t - W, t]
AdmittedIn(k, t) ==
  {i \in DOMAIN checks :
     /\ checks[i].id = k
     /\ checks[i].ok
     /\ t - windowMs < checks[i].t
     /\ checks[i].t <= t}

DeniedIn(k, t) ==
  {i \in DOMAIN checks :
     /\ checks[i].id = k
     /\ ~checks[i].ok
     /\ t - windowMs < checks[i].t
     /\ checks[i].t <= t}

\* C1: for every identifier k and every time t, at most RATE_LIMIT_MAX
\* admitted checks for k have their timestamp in the window (t - W, t].
C1_SlidingWindowBound ==
  \A k \in LoggedIds : \A t \in 0..(MaxTime + windowMs) :
    Cardinality(AdmittedIn(k, t)) <= RATE_LIMIT_MAX

\* a window that is full, in which a further check was turned away
C1_Witness ==
  \E k \in LoggedIds : \E t \in 0..MaxTime :
    /\ Cardinality(AdmittedIn(k, t)) = RATE_LIMIT_MAX
    /\ DeniedIn(k, t) # {}
    /\ \E i \in AdmittedIn(k, t) : \E j \in AdmittedIn(k, t) :
         checks[i].t # checks[j].t

\* C2: for an identifier unseen at the start, each of its first
\* RATE_LIMIT_MAX checks made less than one window after its first check is
\* admitted, and its (RATE_LIMIT_MAX + 1)th check, if made less than one
\* window after the first, is denied.
C2_FirstNThenDeny ==
  \A k \in LoggedIds :
    LET s == ChecksOf(k)
    IN  \A m \in 1..Len(s) :
          s[m].t - s[1].t < windowMs =>
            /\ (m <= RATE_LIMIT_MAX => s[m].ok)
            /\ (m = RATE_LIMIT_MAX + 1 => ~s[m].ok)

\* some identifier made RATE_LIMIT_MAX + 1 checks within one window
C2_Witness ==
  \E k \in LoggedIds :
    LET s == ChecksOf(k)
    IN  /\ Len(s) > RATE_LIMIT_MAX
        /\ s[RATE_LIMIT_MAX + 1].t - s[1].t < windowMs
        /\ ~s[RATE_LIMIT_MAX + 1].ok

\* C4: a check made when the earliest timestamp recorded for the identifier
\* is at least one full window old is admitted, whatever denied checks
\* came before it.
C4_AdmittedAfterWindow ==
  \A i \in DOMAIN checks :
    (checks[i].before # <<>> /\ checks[i].t - checks[i].before[1] >= windowMs)
      => checks[i].ok

\* an identifier at capacity was denied, and admitted again once its
\* earliest timestamp was one window old
C4_Witness ==
  \E i \in DOMAIN checks : \E j \in DOMAIN checks :
    /\ i < j
    /\ checks[i].id = checks[j].id
    /\ ~checks[i].ok
    /\ checks[j].ok
    /\ Len(checks[j].before) = RATE_LIMIT_MAX
    /\ checks[j].t - checks[j].before[1] >= windowMs

AllKeys == DOMAIN rateLimitStore \cup Identifiers

CheckStep == Len(checks') = Len(checks) + 1

\* C5: a denied check leaves the timestamps kept for every identifier,
\* the denied one included, exactly as they were.
C5_DenyRecordsNothing ==
  [][(CheckStep /\ ~Last(checks').ok) =>
       \A k \in AllKeys \cup {Last(checks').id} :
         Get(rateLimitStore', k) = Get(rateLimitStore, k)]_vars

\* a check was denied
C5_Witness ==
  /\ checks # <<>>
  /\ ~Last(checks).ok
  /\ Len(Last(checks).valid) = RATE_LIMIT_MAX

\* C6: a check for one identifier changes neither the timestamps kept for
\* any other identifier nor the decision any later check for another
\* identifier would get.
C6_IdentifiersIndependent ==
  [][CheckStep =>
       \A j \in (AllKeys \cup DOMAIN rateLimitStore') \ {Last(checks').id} :
         /\ Get(rateLimitStore', j) = Get(rateLimitStore, j)
         /\ \A t \in now..MaxTime :
              checkRateLimit(rateLimitStore', j, t).ok
                = checkRateLimit(rateLimitStore, j, t).ok]_vars

\* one identifier is out of quota while another is admitted in the same window
C6_Witness ==
  \E i \in DOMAIN checks : \E j \in DOMAIN checks :
    /\ i < j
    /\ checks[i].id # checks[j].id
    /\ ~checks[i].ok
    /\ checks[j].ok
    /\ checks[j].t - checks[i].t < windowMs

\* C3: when two requests are handled concurrently and check the same
\* identifier one after the other, with exactly one slot free at the first
\* check and no recorded timestamp expiring in between, the first is
\* admitted and the second is denied.
Concurrent(i, j) ==
  checks[j].n \in checks[i].inflight \/ checks[i].n \in checks[j].inflight

NoExpiry(i, j) ==
  /\ checks[j].t - checks[i].t < windowMs
  /\ \A x \in DOMAIN checks[i].valid :
       checks[j].t - checks[i].valid[x] < windowMs

RacingPair(i, j) ==
  /\ i < j
  /\ checks[i].id = checks[j].id
  /\ \A m \in DOMAIN checks : (i < m /\ m < j) => checks[m].id # checks[i].id
  /\ Concurrent(i, j)
  /\ Len(checks[i].valid) = RATE_LIMIT_MAX - 1
  /\ NoExpiry(i, j)

C3_NoDoubleAdmit ==
  \A i \in DOMAIN checks : \A j \in DOMAIN checks :
    RacingPair(i, j) => (checks[i].ok /\ ~checks[j].ok)

\* two requests in flight together raced for the last slot
C3_Witness ==
  \E i \in DOMAIN checks : \E j \in DOMAIN checks :
    /\ RacingPair(i, j)
    /\ checks[i].n \in checks[j].inflight
    /\ checks[i].ok
    /\ ~checks[j].ok

(***************************************************************************)
(* Properties of validation                                                *)
(***************************************************************************)
\* the outcome code a response stands for
Outcome(q) ==
  CASE q.status = 405 -> "MethodNotAllowed"
    [] q.resp.error \in {"Spam detected", "Invalid submission"}
         -> "SpamDetected"
    [] q.resp.message = "Message received" -> "SpamDetected"
    [] q.resp.error = "Name is required" -> "MissingName"
    [] q.resp.error = "Email is required" -> "MissingEmail"
    [] q.resp.error = "Message is required" -> "MissingMessage"
    [] q.resp.error = "Missing required fields" -> "MissingFields"
    [] q.resp.error = "Invalid email format" -> "InvalidEmailFormat"
    [] q.resp.error = "reCAPTCHA verification failed" -> "BotCheckFailed"
    [] q.status = 429 -> "RateLimited"
    [] q.resp.error = "Server configuration error" -> "MisconfiguredServer"
    [] q.resp.error \in {"Failed to send message. Please try again.",
                         "Failed to send email"} -> "DeliveryFailed"
    [] q.status = 500 -> "ServerError"
    [] OTHER -> "Accepted"

\* the POST request with a body that was answered in the step just taken
Answered == done.pc = "done" /\ done.method = "POST" /\ done.hasBody

\* the submitter's email: _replyto if present, else email
EmailOf(body) == Or(body._replyto, body.email)

Trimmed(v) == IF v = undefined THEN <<>> ELSE trim(v)

\* the code of the first failing check, in the order honeypot, name, email
\* presence, message, email format
FirstFailing(body) ==
  IF Truthy(body.website) THEN "SpamDetected"
  ELSE IF Trimmed(body.name) = <<>> THEN "MissingName"
  ELSE IF Trimmed(EmailOf(body)) = <<>> THEN "MissingEmail"
  ELSE IF Trimmed(body.message) = <<>> THEN "MissingMessage"
  ELSE IF ~isValidEmail(EmailOf(body)) THEN "InvalidEmailFormat"
  ELSE "pass"

\* C7: every POST payload that fails a check is answered with HTTP 400 and
\* the code of the first failing check in the order honeypot, name, email
\* presence, message, email format.  (Payloads whose website is only
\* whitespace are left to C8.)
C7_FailFastOrder ==
  (Answered /\ done.body.website # Blank /\ FirstFailing(done.body) # "pass")
    => (Outcome(done) = FirstFailing(done.body) /\ done.status = 400)

\* C8: every POST payload whose website field is non-empty, whitespace-only
\* content included, has the outcome SpamDetected.
C8_HoneypotAlwaysSpam ==
  (Answered /\ Truthy(done.body.website)) => Outcome(done) = "SpamDetected"

\* C9: a request that triggers the honeypot is answered with HTTP 400 and
\* an error body, after no delivery attempt, no bot-verification call and
\* no admission check.
C9_HoneypotRejected ==
  (Answered /\ Truthy(Trimmed(done.body.website))) =>
     /\ done.status = 400
     /\ done.resp.error # "undefined"
     /\ done.sends = 0
     /\ done.verifies = 0
     /\ \A i \in DOMAIN checks : checks[i].n # done.n

\* every invocation: those in flight and the one just answered
Invocations ==
  {reqs[r] : r \in {r \in Slots : InFlight(r)}}
    \cup (IF done.pc = "done" /\ done.method = "POST" /\ done.hasBody
            THEN {done} ELSE {})

\* rejected at the honeypot or at a presence check
RejectedEarlier(q) ==
  /\ q.pc = "done"
  /\ Outcome(q) \in {"SpamDetected", "MissingName", "MissingEmail",
                     "MissingMessage", "MissingFields"}

RejectedAsInvalidEmail(q) ==
  q.pc = "done" /\ Outcome(q) = "InvalidEmailFormat" /\ q.status = 400

HasSpace(s) == \E i \in DOMAIN s : IsSpace(s[i])

\* no "@", or no "." after an "@"
NoAtThenDot(s) ==
  ~\E i \in DOMAIN s : \E j \in DOMAIN s : i < j /\ s[i] = "@" /\ s[j] = "."

NonSpace(s, a, b) == a <= b /\ \A i \in a..b : ~IsSpace(s[i])

\* non-whitespace, "@", non-whitespace, ".", non-whitespace
LooseShape(s) ==
  \E i \in DOMAIN s : \E j \in DOMAIN s :
    /\ i < j
    /\ s[i] = "@"
    /\ s[j] = "."
    /\ NonSpace(s, 1, i - 1)
    /\ NonSpace(s, i + 1, j - 1)
    /\ NonSpace(s, j + 1, Len(s))

\* the same shape with no further "@" in any of the three parts: no
\* whitespace, exactly one "@", not first, and a "." that is neither right
\* after the "@" nor last
StrictShape(s) ==
  /\ ~HasSpace(s)
  /\ Cardinality({i \in DOMAIN s : s[i] = "@"}) = 1
  /\ \E i \in DOMAIN s : \E j \in DOMAIN s :
       s[i] = "@" /\ 1 < i /\ s[j] = "." /\ i + 1 < j /\ j < Len(s)

\* C10 as stated: past the honeypot and presence checks, an email with no
\* "@", no "." after the "@" or with whitespace is rejected as
\* InvalidEmailFormat with HTTP 400, and every email of the shape
\* non-whitespace "@" non-whitespace "." non-whitespace passes the gate.
C10_EmailGateLoose ==
  \A q \in Invocations :
    ~RejectedEarlier(q) =>
      /\ (HasSpace(EmailOf(q.body)) \/ NoAtThenDot(EmailOf(q.body)))
           => RejectedAsInvalidEmail(q)
      /\ LooseShape(EmailOf(q.body)) => ~RejectedAsInvalidEmail(q)

\* C10 amended: the emails that pass are those of the shape X "@" X "." X
\* where each X is a non-empty run of characters that are neither
\* whitespace nor "@".
C10_EmailGate ==
  \A q \in Invocations :
    ~RejectedEarlier(q) =>
      /\ (HasSpace(EmailOf(q.body)) \/ NoAtThenDot(EmailOf(q.body)))
           => RejectedAsInvalidEmail(q)
      /\ StrictShape(EmailOf(q.body)) => ~RejectedAsInvalidEmail(q)

\* a well-formed email of full length passed the gate: its request went on
\* to the next stage
C10_Witness ==
  \E r \in Slots :
    /\ InFlight(r)
    /\ StrictShape(EmailOf(reqs[r].body))
    /\ Len(EmailOf(reqs[r].body)) = MaxEmailLen

(***************************************************************************)
(* Properties of the pipeline                                              *)
(***************************************************************************)
\* every invocation, whatever its method: those in flight and the one just
\* answered
AllInvocations ==
  {reqs[r] : r \in {r \in Slots : InFlight(r)}}
    \cup (IF done.pc = "done" THEN {done} ELSE {})

\* the admission checks made for invocation n
CheckedFor(n) == {i \in DOMAIN checks : checks[i].n = n}

AdmittedFor(n) == {i \in CheckedFor(n) : checks[i].ok}

DeniedFor(n) == {i \in CheckedFor(n) : ~checks[i].ok}

\* C11: the admission check of a request runs after its bot check has
\* passed and before delivery: a request waiting for the bot check has made
\* no admission check, a request rejected by the bot check has recorded no
\* timestamp (it made no admission check, so its identifier's quota is as it
\* was), and a request that attempted delivery was admitted first.
C11_AdmissionAfterBotCheck ==
  \A q \in AllInvocations :
    /\ q.pc = "verify" => CheckedFor(q.n) = {}
    /\ (q.pc = "done" /\ Outcome(q) = "BotCheckFailed")
         => CheckedFor(q.n) = {}
    /\ q.sends > 0 => AdmittedFor(q.n) # {}

\* C12: a request denied by the rate limiter is answered with HTTP 429
\* (RateLimited) at once, and no delivery attempt is made for it.
C12_DeniedGets429 ==
  \A q \in AllInvocations :
    DeniedFor(q.n) # {} =>
      /\ q.pc = "done"
      /\ q.status = 429
      /\ Outcome(q) = "RateLimited"
      /\ q.sends = 0

\* a request over quota was answered 429
C12_Witness ==
  /\ done.pc = "done"
  /\ done.status = 429
  /\ DeniedFor(done.n) # {}
  /\ Len(checks[CHOOSE i \in DeniedFor(done.n) : TRUE].valid) = RATE_LIMIT_MAX

\* the request was admitted and the bot gate did not reject it
PassedGates(q) ==
  /\ AdmittedFor(q.n) # {}
  /\ q.pc = "send" \/ (q.pc = "done" /\ Outcome(q) # "BotCheckFailed")

\* C13: every request makes at most one send attempt, a failed attempt
\* included; a request that has been answered made exactly one if it passed
\* every gate before delivery and the delivery configuration is present, and
\* none otherwise.
C13_OneSendAttempt ==
  \A q \in AllInvocations :
    /\ q.sends <= 1
    /\ q.pc = "verify" => q.sends = 0
    /\ q.pc = "send" => q.sends = 1
    /\ q.pc = "done" => (q.sends = 1 <=> (PassedGates(q) /\ env.SENDGRID))

\* a send attempt failed and the request was answered without a second one
C13_Witness ==
  /\ done.pc = "done"
  /\ done.status = 500
  /\ done.sends = 1
  /\ PassedGates(done)

\* the step just taken resumed a handler with the provider's answer `reply`
SentWith(reply) == \E r \in Slots : reqs[r].pc = "send" /\ sent(r, reply)

ProviderSuccess(reply) == reply.kind = "status" /\ Is2xx(reply.status)

\* C14: a POST request is answered with HTTP 200 and ok = true exactly when
\* its one delivery attempt was made and the provider reported success;
\* every other answer has a non-2xx status and a body with ok = false and
\* an error identifier.
C14_SuccessIffDelivered ==
  [][(done'.pc = "done" /\ done'.method = "POST") =>
       IF \E reply \in SendReplies : ProviderSuccess(reply) /\ SentWith(reply)
         THEN /\ done'.sends = 1
              /\ done'.status = 200
              /\ done'.resp.ok = "true"
         ELSE /\ ~Is2xx(done'.status)
              /\ done'.resp.ok = "false"
              /\ done'.resp.error # "undefined"]_vars

\* the payload carries a bot token under either of the field names read
HasToken(body) ==
  Truthy(body.recaptchaToken) \/ Truthy(body.g_recaptcha_response)

\* a POST request whose payload passes the honeypot, presence and format
\* checks
PassesValidation(q) ==
  q.method = "POST" /\ q.hasBody /\ FirstFailing(q.body) = "pass"

\* C15: with a verification secret configured, a request that passes
\* validation and carries no token is rejected at the bot gate, HTTP 400
\* BotCheckFailed, with no delivery attempt.  (A request the rate limiter
\* turned away before the bot gate is answered RateLimited instead.)
C15_MissingTokenRejected ==
  \A q \in AllInvocations :
    (env.RECAPTCHA_SECRET /\ PassesValidation(q) /\ ~HasToken(q.body)) =>
      /\ q.pc = "done"
      /\ q.sends = 0
      /\ \/ Outcome(q) = "RateLimited"
         \/ Outcome(q) = "BotCheckFailed" /\ q.status = 400

\* the step just taken resumed a handler with the verification service's
\* answer `reply`
VerifiedWith(reply) ==
  \E r \in Slots : reqs[r].pc = "verify" /\ verified(r, reply)

\* the threshold of the deployed handler, in tenths
Threshold == IF variant = "part_003" THEN ScoreThreshold3 ELSE ScoreThreshold

\* a success answer with a numeric score at or above the threshold
ShouldAccept(reply) ==
  /\ reply.kind = "json"
  /\ reply.success
  /\ reply.hasScore
  /\ reply.score >= Threshold

\* C16: with a secret configured and a token supplied, the bot gate lets
\* the request on exactly when the verification service answers success
\* with a numeric score at or above the threshold; a network error, an
\* unparsable answer and a success answer without a score are rejected
\* as BotCheckFailed.
C16_BotGateNeverFailsOpen ==
  [][\A reply \in VerifyReplies :
       VerifiedWith(reply) =>
         (ShouldAccept(reply)
            <=> ~(done'.pc = "done" /\ Outcome(done') = "BotCheckFailed"))]_vars

\* what the deployed handler answers a request whose send got `reply`
AnswerToSend(reply) ==
  LET cx == AwaitSend(Cx(1, Invocation(0, Post(Valid(Email1), From("ip1")))))
  IN  CASE variant = "contact" -> contact_sent(cx, reply).q
        [] variant = "part_002" -> part_002_sent(cx, reply).q
        [] variant = "part_003" -> part_003_sent(cx, reply).q

\* C17: a request that passed every gate while the delivery configuration
\* is missing is answered 500 with an error identifier different from every
\* one the handler gives when the provider fails a send, and makes no send
\* attempt.
C17_MisconfiguredDistinct ==
  (done.pc = "done" /\ ~env.SENDGRID /\ PassedGates(done)) =>
     /\ done.sends = 0
     /\ done.status = 500
     /\ \A reply \in SendReplies :
          ~ProviderSuccess(reply) =>
            done.resp.error # AnswerToSend(reply).resp.error

\* the provider's answers that are failures: a non-2xx status, or a send
\* that threw
Failures == {reply \in SendReplies : ~ProviderSuccess(reply)}

\* C18 as stated: when the provider fails, the response is HTTP 500 and
\* is the same, status and body, as for every other provider failure.
C18_FailureIdentical ==
  [][\A reply \in Failures :
       SentWith(reply) =>
         /\ done'.status = 500
         /\ \A other \in Failures :
              /\ AnswerToSend(other).status = done'.status
              /\ AnswerToSend(other).resp = done'.resp]_vars

\* C18 amended: when the provider fails, the response is HTTP 500 with one
\* of the handler's fixed messages, the same for any two failures reported
\* the same way (two failure statuses, or two sends that threw); a failure
\* status and a thrown send may get different fixed messages.
C18_FailureGeneric ==
  [][\A reply \in Failures :
       SentWith(reply) =>
         /\ done'.status = 500
         /\ done'.resp.error # "undefined"
         /\ \A other \in Failures :
              other.kind = reply.kind =>
                /\ AnswerToSend(other).status = done'.status
                /\ AnswerToSend(other).resp = done'.resp]_vars

\* a send failed and the request was answered 500 with the handler's
\* message for a failed send
C18_Witness ==
  /\ done.pc = "done"
  /\ done.sends = 1
  /\ done.status = 500
  /\ \E reply \in Failures : done.resp = AnswerToSend(reply).resp

\* C19: every request gets exactly one response: a handler that has
\* returned has answered once, with a status, a handler still waiting has
\* not answered yet, and a POST whose body is missing or unreadable (the
\* first read of a field throws) is answered 500.
C19_ExactlyOneResponse ==
  \A q \in AllInvocations :
    /\ q.pc = "done" => (q.responses = 1 /\ q.status # 0)
    /\ q.pc # "done" => q.responses = 0
    /\ (q.pc = "done" /\ q.method = "POST" /\ ~q.hasBody) => q.status = 500

\* a POST without a body was answered 500
C19_Witness ==
  /\ done.pc = "done"
  /\ done.method = "POST"
  /\ ~done.hasBody
  /\ done.status = 500
  /\ done.responses = 1

(***************************************************************************)
(* SpecLive: the pipeline with time passing.  The clock is the only thing  *)
(* that is sure to move: the verification service and the email provider   *)
(* are not obliged to answer, and the handlers set no timer on their       *)
(* outbound calls (fetch is called without a signal, sgMail.send without a *)
(* timeout), so no step of a waiting handler is enabled by time alone.     *)
(***************************************************************************)
SpecLive == Init /\ [][Next]_vars /\ WF_vars(now < MaxClock /\ Tick)

\* C20: every request waiting on the verification service or on the email
\* provider is eventually answered, whether or not the service replies.
C20_EveryRequestAnswered ==
  \A r \in Slots : InFlight(r) ~> ~InFlight(r)

(***************************************************************************)
(* Properties of the method gate and of the early gates                    *)
(***************************************************************************)
\* C21: a request whose method is not POST is answered with HTTP 405 and a
\* body with ok = false and an error, after no admission check (so the
\* admission state is as it was) and no outbound call; the payload is not
\* read, so a request without a body gets the same answer.
C21_MethodNotAllowed ==
  (done.pc = "done" /\ done.method # "POST") =>
     /\ done.status = 405
     /\ done.resp.ok = "false"
     /\ done.resp.error # "undefined"
     /\ done.verifies = 0
     /\ done.sends = 0
     /\ CheckedFor(done.n) = {}

(***************************************************************************)
(* SpecStores: the same checks put to the in-memory store and to the       *)
(* remote store, one after the other, with no call failing                 *)
(***************************************************************************)
StoresCheck(k) ==
  /\ Len(checks) < MaxChecks
  /\ rateLimitStore' = checkRateLimit(rateLimitStore, k, now).store
  /\ redis' = checkRateLimitRedis(redis, k, now).redis
  /\ checks' = Append(checks, CheckEntry(0, rateLimitStore, k, now, {}))
  /\ done' = Idle
  /\ UNCHANGED <<variant, env, now, reqs, arrivals, page>>

NextStores == Tick \/ \E k \in Identifiers : StoresCheck(k)

SpecStores == InitLimiter /\ [][NextStores]_vars

\* the decision of the remote store for the check just logged
RemoteOk == checkRateLimitRedis(redis, Last(checks').id, now).ok

\* the time of the first check of identifier k in a log of checks
FirstCheck(log, k) == SelectSeq(log, LAMBDA e : e.id = k)[1].t

\* C22 (as stated): for every sequence of timestamped checks, the in-memory
\* store and the remote store give the same decision at every step.
C22_StoresAgree == [][CheckStep => (Last(checks').ok <=> RemoteOk)]_vars

\* C22 (amended): the two stores give the same decision for every check made
\* less than one window after the identifier's first check.
C22_StoresAgreeInFirstWindow ==
  [][(CheckStep /\ now - FirstCheck(checks', Last(checks').id) < windowMs)
       => (Last(checks').ok <=> RemoteOk)]_vars

\* both stores have denied a check inside the identifier's first window
C22_Witness ==
  /\ checks # <<>>
  /\ ~Last(checks).ok
  /\ Last(checks).t - FirstCheck(checks, Last(checks).id) < windowMs
  /\ redis[redisKey(Last(checks).id)].count > RATE_LIMIT_MAX

(***************************************************************************)
(* SpecRemote: the handlers with the Upstash Redis block in use, each call *)
(* to the store a step of its own that can fail                            *)
(***************************************************************************)
RemoteVariants == {"part_002", "part_003"}

RemoteInputs ==
  {Post(Valid(Email1), From("ip1")), Post(Valid(Email2), From("ip2"))}

InitRemote ==
  /\ variant \in RemoteVariants
  /\ env \in RemoteEnvs
  /\ now = 0
  /\ rateLimitStore = <<>>
  /\ reqs = [r \in Slots |-> Idle]
  /\ arrivals = 0
  /\ done = Idle
  /\ checks = <<>>
  /\ redis = <<>>
  /\ page = NoPage

NextRemote ==
  \/ now < MaxClock /\ Tick
  \/ /\ arrivals < MaxRequests
     /\ \E r \in Slots : \E input \in RemoteInputs : handler(r, input)
  \/ \E r \in Slots : \E reply \in RedisReplies : incremented(r, reply)
  \/ \E r \in Slots : \E reply \in RedisReplies : expired(r, reply)
  \/ \E r \in Slots : \E reply \in SendReplies : sent(r, reply)

SpecRemote == InitRemote /\ [][NextRemote]_vars

\* a call of request r to the store fails
StoreFails(r) == incremented(r, "error") \/ expired(r, "error")

\* C23: when a call to the remote store fails, the request is denied and the
\* delivery gateway is not invoked.
C23_StoreFailureDenies ==
  [][\A r \in Slots :
       StoreFails(r) =>
          /\ done'.pc = "done"
          /\ ~Is2xx(done'.status)
          /\ done'.sends = 0]_vars

\* C24: no counter key with a count of at least 1 exists without an expiry.
C24_CounterAlwaysExpires ==
  \A key \in DOMAIN redis :
     (Live(redis, key, now) /\ redis[key].count >= 1) => redis[key].expires

(***************************************************************************)
(* Properties of the stored timestamps                                     *)
(***************************************************************************)
\* the list stored for the identifier of the last check
StoredForLast == Get(rateLimitStore, storeKey(Last(checks).id))

\* C25: right after a check of identifier k is admitted at time t, the list
\* stored for k holds only timestamps ts with t - ts < windowMs, and at most
\* RATE_LIMIT_MAX of them.
C25_StoredAfterAdmission ==
  (checks # <<>> /\ Last(checks).ok) =>
     /\ Len(StoredForLast) <= RATE_LIMIT_MAX
     /\ \A i \in DOMAIN StoredForLast :
          Last(checks).t - StoredForLast[i] < windowMs

\* an admission that dropped an expired timestamp and filled the list
C25_Witness ==
  /\ checks # <<>>
  /\ Last(checks).ok
  /\ Len(Last(checks).valid) < Len(Last(checks).before)
  /\ Len(StoredForLast) = RATE_LIMIT_MAX

\* the check entries made against a list of RATE_LIMIT_MAX timestamps, all
\* of them equal
AfterBurst ==
  {i \in DOMAIN checks :
     /\ Len(checks[i].before) = RATE_LIMIT_MAX
     /\ \A j \in DOMAIN checks[i].before :
          checks[i].before[j] = checks[i].before[1]}

\* C28: a timestamp ts counts at time t exactly when t - ts < windowMs; after
\* RATE_LIMIT_MAX admissions at t0 a check less than windowMs later (the
\* last such time is t0 + windowMs - 1) is denied and a check at
\* t0 + windowMs or later is admitted.
C28_WindowBoundary ==
  \A i \in DOMAIN checks :
    /\ \A j \in DOMAIN checks[i].before :
         (\E m \in DOMAIN checks[i].valid :
             checks[i].valid[m] = checks[i].before[j])
           <=> checks[i].t - checks[i].before[j] < windowMs
    /\ i \in AfterBurst =>
         (checks[i].ok <=> checks[i].t - checks[i].before[1] >= windowMs)

\* after one burst, a check at t0 + windowMs - 1 was denied and the check at
\* t0 + windowMs was admitted
C28_Witness ==
  \E i \in AfterBurst : \E j \in AfterBurst :
    /\ checks[i].id = checks[j].id
    /\ checks[i].before = checks[j].before
    /\ checks[i].t = checks[i].before[1] + windowMs - 1
    /\ ~checks[i].ok
    /\ checks[j].t = checks[j].before[1] + windowMs
    /\ checks[j].ok

(***************************************************************************)
(* Properties of the early gates and of the values sent                    *)
(***************************************************************************)
EarlyGates ==
  {"MethodNotAllowed", "SpamDetected", "MissingName", "MissingEmail",
   "MissingMessage", "MissingFields", "InvalidEmailFormat"}

\* the invocation was answered by one of the gates before the bot check
RejectedEarly(q) == q.pc = "done" /\ Outcome(q) \in EarlyGates

\* C26: a request rejected at the method, honeypot, required-field or
\* email-format gate leaves the admission store as it was and makes no
\* outbound network call.
C26_EarlyRejectionChangesNothing ==
  [][RejectedEarly(done') =>
       /\ rateLimitStore' = rateLimitStore
       /\ checks' = checks
       /\ redis' = redis
       /\ done'.verifies = 0
       /\ done'.sends = 0
       /\ \A r \in Slots : reqs'[r].pc = reqs[r].pc]_vars

\* a request was rejected at the email-format gate
C26_Witness ==
  /\ RejectedEarly(done)
  /\ Outcome(done) = "InvalidEmailFormat"
  /\ Truthy(EmailOf(done.body))

\* C27: the email is trimmed before it is validated: a payload whose other
\* fields pass and whose email is a valid address with whitespace around it
\* passes the presence gate and the format gate.
C27_EmailTrimmedBeforeValidation ==
  (/\ Answered
   /\ ~Truthy(done.body.website)
   /\ Trimmed(done.body.name) # <<>>
   /\ Trimmed(done.body.message) # <<>>
   /\ isValidEmail(Trimmed(EmailOf(done.body))))
    => Outcome(done) \notin EarlyGates

\* C30: the name, email, message and service handed to the email provider
\* are the trimmed values of the payload, a missing service being empty.
C30_TrimmedValuesSent ==
  \A r \in Slots :
    reqs[r].pc = "send" =>
      LET body == reqs[r].body
      IN  Handed(body) =
            [name    |-> Trimmed(body.name),
             email   |-> Trimmed(EmailOf(body)),
             service |-> Trimmed(body.service),
             message |-> Trimmed(body.message)]

(***************************************************************************)
(* SpecWindow: requests handled one after the other while the clock runs   *)
(* through whole windows                                                   *)
(***************************************************************************)
\* the address of Email1 in another spelling
EmailUpper == <<"A", "@", "a", ".", "a">>

WindowInputs ==
  {Post(Valid(Email1), From("ip1")), Post(Token(Valid(Email1)), From("ip1")),
   Post(Valid(EmailUpper), From("ip1"))}

NextWindow ==
  \/ Tick
  \/ /\ arrivals < MaxRequests
     /\ \A r \in Slots : ~InFlight(r)
     /\ \E r \in Slots : \E input \in WindowInputs : handler(r, input)
  \/ \E r \in Slots : \E reply \in VerifyReplies : verified(r, reply)
  \/ \E r \in Slots : \E reply \in SendReplies : sent(r, reply)

SpecWindow == Init /\ [][NextWindow]_vars

\* the admitted checks of identifier k whose timestamp is inside the window
\* at the present time
AdmittedInWindow(k) ==
  {i \in DOMAIN checks :
     checks[i].id = k /\ checks[i].ok /\ now - checks[i].t < windowMs}

\* the invocation answered in the step just taken was admitted and then
\* failed
FailedAfterAdmission ==
  done.pc = "done" /\ done.status # 200 /\ AdmittedFor(done.n) # {}

\* C29: an admission is never rolled back.  A request that was admitted and
\* then fails keeps its timestamp in the store, and as long as an admission
\* is less than one window old it counts against its identifier, whatever
\* became of the request.
C29_AdmissionNeverRolledBack ==
  /\ FailedAfterAdmission =>
       \A i \in AdmittedFor(done.n) :
         \E j \in DOMAIN Get(rateLimitStore, storeKey(checks[i].id)) :
           Get(rateLimitStore, storeKey(checks[i].id))[j] = checks[i].t
  /\ \A k \in LoggedIds :
       Len(validRequests(Get(rateLimitStore, storeKey(k)), now))
         = Cardinality(AdmittedInWindow(k))

\* the delivery configuration is missing, so every admitted request failed;
\* one of them is in the last instant of its window and still counts
C29_Witness ==
  /\ ~env.SENDGRID
  /\ \A r \in Slots : ~InFlight(r)
  /\ \E k \in LoggedIds : \E i \in AdmittedInWindow(k) :
       /\ now = checks[i].t + windowMs - 1
       /\ Len(validRequests(Get(rateLimitStore, storeKey(k)), now)) >= 1

(***************************************************************************)
(* Properties of the email resolution                                      *)
(***************************************************************************)
\* the deployed handler, from the request to its first await or response
handle(cx) ==
  CASE variant = "contact" -> contact_handler(cx)
    [] variant = "part_002" -> part_002_handler(cx)
    [] variant = "part_003" -> part_003_handler(cx)

\* the invocation that arrived in the step just taken
Arrived ==
  IF done'.pc = "done"
    THEN done'
    ELSE reqs'[CHOOSE r \in Slots : reqs'[r].n = arrivals']

\* the payload carries the address under email and has no _replyto
EmailOnly(body) == body._replyto = undefined /\ Truthy(body.email)

\* the same payload with the address under _replyto
UnderReplyto(body) ==
  [body EXCEPT !._replyto = body.email, !.email = undefined]

\* the handler run on the same request with the address under _replyto
Twin(q) ==
  handle(Cx(1, Invocation(q.n, Post(UnderReplyto(q.body), q.headers))))

\* C31: a payload carrying the address only under email gets the same
\* outcome, the same effect on the store and the same delivered message as
\* the same payload carrying it under _replyto.
C31_EmailFallback ==
  [][(arrivals' = arrivals + 1 /\ Arrived.hasBody /\ EmailOnly(Arrived.body))
       => /\ Twin(Arrived).q.pc = Arrived.pc
          /\ Twin(Arrived).q.status = Arrived.status
          /\ Twin(Arrived).q.resp = Arrived.resp
          /\ Twin(Arrived).store = rateLimitStore'
          /\ Handed(UnderReplyto(Arrived.body)) = Handed(Arrived.body)]_vars

\* the handler run on the same request with its address in lower case
LowerTwin(q) ==
  LET body == [q.body EXCEPT !._replyto = toLowerCase(EmailOf(q.body))]
  IN  handle(Cx(1, Invocation(q.n, Post(body, q.headers))))

\* the timestamps that count now against the lower-case spelling of the
\* address of invocation q
CountedFor(q) ==
  validRequests(Get(rateLimitStore, toLowerCase(EmailOf(q.body))), now)

\* C32: in the email-keyed handler a submission is counted under the
\* lower-case spelling of its email: it is answered as the same submission
\* in lower case would be, with the same effect on the store, and it is
\* RateLimited when RATE_LIMIT_MAX admissions of that address, in whatever
\* spelling, are inside the window.
C32_SpellingsShareQuota ==
  [][(/\ variant = "contact"
      /\ arrivals' = arrivals + 1
      /\ ~RejectedEarly(Arrived))
       => /\ LowerTwin(Arrived).q.pc = Arrived.pc
          /\ LowerTwin(Arrived).q.status = Arrived.status
          /\ LowerTwin(Arrived).store = rateLimitStore'
          /\ Len(CountedFor(Arrived)) >= RATE_LIMIT_MAX
               => Outcome(Arrived) = "RateLimited"]_vars

\* a submission spelled in upper case was turned away, its quota used up
\* under the lower-case key
C32_Witness ==
  /\ variant = "contact"
  /\ done.pc = "done"
  /\ Outcome(done) = "RateLimited"
  /\ EmailOf(done.body) = EmailUpper
  /\ Len(Get(rateLimitStore, Email1)) = RATE_LIMIT_MAX
  /\ DOMAIN rateLimitStore = {Email1}

(***************************************************************************)
(* The submit scripts of the page: contact-submit.js ("root") and the two  *)
(* handlers of assets/contact-submit.js ("first", "second")                *)
(***************************************************************************)
Scripts == {"root", "first", "second"}

\* new FormData(form): every field of the form is a string, a field the
\* form does not have is absent
FormValues ==
  [name : {<<>>, <<"a">>},
   _replyto : {undefined, <<>>, <<"a">>, Email1, PaddedEmail},
   email : {undefined, Email1},
   message : {<<>>, <<"a">>},
   service : {<<>>},
   website : {<<>>},
   recaptchaToken : {undefined},
   g_recaptcha_response : {undefined}]

\* the form has one address field, _replyto or email
Forms ==
  {data \in FormValues : (data._replyto = undefined) # (data.email = undefined)}

\* no response received yet
NoReply == [status |-> 0, resp |-> End, sends |-> 0]

\* one run of the submit handler
Submission(pc, data, orig, result) ==
  [pc |-> pc, data |-> data, n |-> 0, reply |-> NoReply, orig |-> orig,
   result |-> result]

\* the page as loaded: contact.html with data-mailto set, with or without a
\* next URL and a reCAPTCHA site key
Page(script, next, recaptcha) ==
  [script |-> script, next |-> next, recaptcha |-> recaptcha, subs |-> <<>>,
   disabled |-> FALSE, label |-> "Send", originalText |-> "",
   status |-> "none", fallbacks |-> 0, redirects |-> 0, mailtos |-> 0,
   location |-> "form"]

\* value?.toString().trim()
optTrim(v) == IF v = undefined THEN undefined ELSE trim(v)

\* the handler returns
Return(p, i, result) ==
  [p EXCEPT !.subs[i] = Submission("done", NoBody, "", result)]

\* the handler reaches await fetch('/api/contact') with its payload
Fetch(p, i, data) ==
  [p EXCEPT !.subs[i].pc = "fetch", !.subs[i].data = data]

\* the handler reaches await grecaptcha.execute
Execute(p, i) == [p EXCEPT !.subs[i].pc = "recaptcha"]

\* what grecaptcha.execute can come to
TokenReplies == {"token", "error"}

WithToken(data) == [data EXCEPT !.recaptchaToken = <<"a">>]

\* mutant: the fallback is opened at once and again after the delay
ScheduleFallback_Twice(p) == [p EXCEPT !.fallbacks = @ + 1, !.mailtos = @ + 1]

\* setTimeout(() => openMailtoFallback / fallbackToMailto, delay)
ScheduleFallback(p) == [p EXCEPT !.fallbacks = @ + 1]

(***************************************************************************)
(* contact-submit.js                                                       *)
(***************************************************************************)
\* the submit listener up to its first await
root_submit(p, i, data) ==
  LET name    == optTrim(data.name)
      email   == Or(optTrim(data._replyto), optTrim(data.email))
      message == optTrim(data.message)
      p1      == [p EXCEPT !.status = "none"]
  IN  IF ~Truthy(name) \/ ~Truthy(email) \/ ~Truthy(message)
        THEN Return([p1 EXCEPT !.status = "error"], i, "invalid")
      ELSE IF p.recaptcha
        THEN Execute([p1 EXCEPT !.status = "sending"], i)
      ELSE Fetch([p1 EXCEPT !.status = "sending"], i, data)

\* after await grecaptcha.execute: an error is only logged
root_token(p, i, reply) ==
  IF reply = "token"
    THEN Fetch(p, i, WithToken(p.subs[i].data))
    ELSE Fetch(p, i, p.subs[i].data)

\* the use of postToEndpoint's result
root_result(p, i, ok) ==
  IF ok
    THEN IF p.next
           THEN Return([p EXCEPT !.location = "next"], i, "success")
           ELSE Return([p EXCEPT !.status = "success"], i, "success")
    ELSE Return(ScheduleFallback([p EXCEPT !.status = "error"]), i,
                "failure")

\* postToEndpoint: res.ok
root_responded(p, i) == root_result(p, i, Is2xx(p.subs[i].reply.status))

\* postToEndpoint: the catch of a rejected fetch
root_failed(p, i) == root_result(p, i, FALSE)

(***************************************************************************)
(* assets/contact-submit.js, first handler                                 *)
(***************************************************************************)
\* mutant: the button is restored only when no error was shown
first_finally_OnSuccess(p) ==
  IF p.status = "error"
    THEN p
    ELSE [p EXCEPT !.disabled = FALSE, !.label = p.originalText]

\* finally: re-enable the submit button
first_finally(p) == [p EXCEPT !.disabled = FALSE, !.label = p.originalText]

\* handleSubmit up to its first await
first_submit(p, i, data) ==
  LET email == Or(data._replyto, data.email)
      p1    == [p EXCEPT !.disabled = TRUE, !.originalText = p.label,
                         !.label = "Sending..."]
      error == [p1 EXCEPT !.status = "error"]
  IN  IF ~Truthy(data.name) \/ ~Truthy(trim(data.name))
        THEN Return(first_finally(error), i, "invalid")
      ELSE IF ~Truthy(email) \/ ~Truthy(trim(email))
        THEN Return(first_finally(error), i, "invalid")
      ELSE IF ~isValidEmail(email)
        THEN Return(first_finally(error), i, "invalid")
      ELSE IF ~Truthy(data.message) \/ ~Truthy(trim(data.message))
        THEN Return(first_finally(error), i, "invalid")
      ELSE IF p.recaptcha THEN Execute(p1, i)
      ELSE Fetch(p1, i, data)

\* after await grecaptcha.execute: an error ends the submission
first_token(p, i, reply) ==
  IF reply = "token"
    THEN Fetch(p, i, WithToken(p.subs[i].data))
    ELSE Return(first_finally([p EXCEPT !.status = "error"]), i, "recaptcha")

\* the catch of handleSubmit
first_failed(p, i) ==
  Return(first_finally(ScheduleFallback([p EXCEPT !.status = "error"])), i,
         "failure")

\* after await response.json()
first_responded(p, i) ==
  LET reply == p.subs[i].reply
  IN  IF Is2xx(reply.status) /\ reply.resp.ok = "true"
        THEN IF p.next
               THEN Return(first_finally([p EXCEPT !.location = "next"]), i,
                           "success")
               ELSE Return(first_finally([p EXCEPT !.status = "success"]), i,
                           "success")
        ELSE first_failed(p, i)

(***************************************************************************)
(* assets/contact-submit.js, second handler                                *)
(***************************************************************************)
\* finally: restore button state
second_finally(p, i) ==
  [p EXCEPT !.disabled = FALSE, !.label = p.subs[i].orig]

\* mutant: the payload is posted without any validation
second_submit_Lax(p, i, data) ==
  Fetch([p EXCEPT !.subs[i].orig = p.label, !.disabled = TRUE,
                  !.label = "Sending..."], i, data)

\* handleSubmit up to its first await
second_submit(p, i, data) ==
  LET name    == trim(Or(data.name, <<>>))
      email   == trim(Or(Or(data._replyto, data.email), <<>>))
      message == trim(Or(data.message, <<>>))
      p1      == [p EXCEPT !.status = "none"]
      error   == [p1 EXCEPT !.status = "error"]
      p2      == [p1 EXCEPT !.subs[i].orig = p.label, !.disabled = TRUE,
                            !.label = "Sending..."]
  IN  IF ~Truthy(name) THEN Return(error, i, "invalid")
      ELSE IF ~Truthy(email) THEN Return(error, i, "invalid")
      ELSE IF ~isValidEmail(email) THEN Return(error, i, "invalid")
      ELSE IF ~Truthy(message) THEN Return(error, i, "invalid")
      ELSE IF p.recaptcha THEN Execute(p2, i)
      ELSE Fetch(p2, i, data)

\* after await grecaptcha.execute: continue without a token if it fails
second_token(p, i, reply) ==
  IF reply = "token"
    THEN Fetch(p, i, WithToken(p.subs[i].data))
    ELSE Fetch(p, i, p.subs[i].data)

\* the catch of handleSubmit
second_failed(p, i) ==
  Return(second_finally(ScheduleFallback([p EXCEPT !.status = "error"]), i),
         i, "failure")

\* after await response.json()
second_responded(p, i) ==
  LET reply == p.subs[i].reply
      shown == [p EXCEPT !.status = "success"]
  IN  IF Is2xx(reply.status) /\ reply.resp.ok = "true"
        THEN IF p.next
               THEN Return(second_finally([shown EXCEPT !.redirects = @ + 1],
                                          i), i, "success")
               ELSE Return(second_finally(shown, i), i, "success")
        ELSE second_failed(p, i)

(***************************************************************************)
(* The page's steps, and the server's steps seen from the page             *)
(***************************************************************************)
\* the page is still displayed
Displayed == page.location = "form"

\* the server steps leave the page alone unless they answer one of its
\* requests
ServerVars == <<variant, env, now, rateLimitStore, reqs, arrivals, checks,
                redis>>

\* the submit event: the listener runs to its first await or to its return
submit(data) ==
  /\ Displayed
  /\ ~page.disabled
  /\ Len(page.subs) < MaxSubmits
  /\ LET i == Len(page.subs) + 1
         p == [page EXCEPT !.subs = Append(@, Submission("start", data, "",
                                                         "none"))]
     IN  \/ page.script = "root" /\ page' = root_submit(p, i, data)
         \/ page.script = "first" /\ page' = first_submit(p, i, data)
         \/ page.script = "second" /\ page' = second_submit(p, i, data)
  /\ done' = Idle
  /\ UNCHANGED ServerVars

\* grecaptcha.execute resolves or rejects
token(i, reply) ==
  /\ Displayed
  /\ page.subs[i].pc = "recaptcha"
  /\ \/ page.script = "root" /\ page' = root_token(page, i, reply)
     \/ page.script = "first" /\ page' = first_token(page, i, reply)
     \/ page.script = "second" /\ page' = second_token(page, i, reply)
  /\ done' = Idle
  /\ UNCHANGED ServerVars

\* the response of invocation q, if q has returned, reaches the submission
\* that is waiting for it
Answer(p, q) ==
  [p EXCEPT !.subs =
     [i \in DOMAIN p.subs |->
        IF q.pc = "done" /\ p.subs[i].pc = "fetch" /\ p.subs[i].n = q.n
          THEN [p.subs[i] EXCEPT !.reply = [status |-> q.status,
                                            resp |-> q.resp,
                                            sends |-> q.sends]]
          ELSE p.subs[i]]]

\* the POST of submission i reaches the endpoint and the handler runs to its
\* first await or response
arrive(r, i) ==
  /\ page.subs[i].pc = "fetch"
  /\ page.subs[i].n = 0
  /\ FreeSlot(r)
  /\ arrivals' = arrivals + 1
  /\ LET input == Post(page.subs[i].data, From("ip1"))
         cx    == handle(Cx(r, Invocation(arrivals + 1, input)))
     IN  /\ Commit(r, cx)
         /\ page' = Answer([page EXCEPT !.subs[i].n = arrivals + 1], cx.q)
  /\ UNCHANGED <<variant, env, now>>

\* the deployed handler after its send
handle_sent(cx, reply) ==
  CASE variant = "contact" -> contact_sent(cx, reply)
    [] variant = "part_002" -> part_002_sent(cx, reply)
    [] variant = "part_003" -> part_003_sent(cx, reply)

\* the email provider answers and the handler responds to the page
served(r, reply) ==
  /\ reqs[r].pc = "send"
  /\ LET cx == handle_sent(Cx(r, reqs[r]), reply)
     IN  Commit(r, cx) /\ page' = Answer(page, cx.q)
  /\ UNCHANGED <<variant, env, now, arrivals>>

\* the response reaches the script
responded(i) ==
  /\ Displayed
  /\ page.subs[i].pc = "fetch"
  /\ page.subs[i].reply # NoReply
  /\ \/ page.script = "root" /\ page' = root_responded(page, i)
     \/ page.script = "first" /\ page' = first_responded(page, i)
     \/ page.script = "second" /\ page' = second_responded(page, i)
  /\ done' = Idle
  /\ UNCHANGED ServerVars

\* the fetch rejects: the network fails before or after the request was
\* received
failed(i) ==
  /\ Displayed
  /\ page.subs[i].pc = "fetch"
  /\ \/ page.script = "root" /\ page' = root_failed(page, i)
     \/ page.script = "first" /\ page' = first_failed(page, i)
     \/ page.script = "second" /\ page' = second_failed(page, i)
  /\ done' = Idle
  /\ UNCHANGED ServerVars

\* a fallback timer fires: window.location.href = mailto
fallback ==
  /\ Displayed
  /\ page.fallbacks > 0
  /\ page' = [page EXCEPT !.fallbacks = @ - 1, !.mailtos = @ + 1]
  /\ done' = Idle
  /\ UNCHANGED ServerVars

\* the redirect timer of the second handler fires
redirect ==
  /\ Displayed
  /\ page.redirects > 0
  /\ page' = [page EXCEPT !.redirects = @ - 1, !.location = "next"]
  /\ done' = Idle
  /\ UNCHANGED ServerVars

(***************************************************************************)
(* SpecClient: one page, its submissions and the endpoint behind them      *)
(***************************************************************************)
ClientEnvs ==
  [RECAPTCHA_SECRET : {FALSE}, SENDGRID : BOOLEAN, UPSTASH : {FALSE}]

InitClient ==
  /\ variant \in Variants
  /\ env \in ClientEnvs
  /\ now = 0
  /\ rateLimitStore = <<>>
  /\ reqs = [r \in Slots |-> Idle]
  /\ arrivals = 0
  /\ done = Idle
  /\ checks = <<>>
  /\ redis = <<>>
  /\ page \in {Page(script, next, recaptcha) :
                 script \in Scripts, next \in BOOLEAN, recaptcha \in BOOLEAN}

Submitted == DOMAIN page.subs

NextClient ==
  \/ \E data \in Forms : submit(data)
  \/ \E i \in Submitted : \E reply \in TokenReplies : token(i, reply)
  \/ \E r \in Slots : \E i \in Submitted : arrive(r, i)
  \/ \E r \in Slots : \E reply \in SendReplies : served(r, reply)
  \/ \E i \in Submitted : responded(i)
  \/ \E i \in Submitted : failed(i)
  \/ fallback
  \/ redirect

SpecClient == InitClient /\ [][NextClient]_vars

(***************************************************************************)
(* Properties of the page                                                  *)
(***************************************************************************)
\* the outcomes of the server's required-field and email-format gates
FieldGates ==
  {"MissingName", "MissingEmail", "MissingMessage", "MissingFields",
   "InvalidEmailFormat"}

\* C33: every submission that passes the script's validation and is posted
\* passes the server's required-field and email-format gates.
C33_ClientMirrorsServer ==
  \A i \in Submitted :
    page.subs[i].reply # NoReply =>
      Outcome(page.subs[i].reply) \notin FieldGates

\* the endpoint has delivered the message and reports success
Delivered(reply) == Is2xx(reply.status) /\ reply.sends = 1

\* C34: when the endpoint has delivered the message and reports success, the
\* script treats the submission as successful and schedules no mail-client
\* fallback.
C34_SuccessIsSuccess ==
  [][\A i \in Submitted :
       (responded(i) /\ Delivered(page.subs[i].reply)) =>
          /\ page'.subs[i].result = "success"
          /\ page'.fallbacks = page.fallbacks
          /\ \/ page'.status = "success"
             \/ page'.location = "next"]_vars

\* a required field of the form is empty or blank
EmptyField(data) ==
  \/ Trimmed(data.name) = <<>>
  \/ Trimmed(EmailOf(data)) = <<>>
  \/ Trimmed(data.message) = <<>>

\* the submission started by the step just taken
Newest == page'.subs[Len(page'.subs)]

\* C36: when the script's validation fails, which it does whenever a
\* required field is empty, the handler returns with an error message: no
\* request is sent, and neither a redirect nor a mail-client fallback is
\* started.
C36_InvalidSendsNothing ==
  [][\A data \in Forms :
       (submit(data) /\ (EmptyField(data) \/ Newest.result = "invalid")) =>
          /\ Newest.pc = "done"
          /\ Newest.result = "invalid"
          /\ page'.status = "error"
          /\ page'.fallbacks = page.fallbacks
          /\ page'.redirects = page.redirects
          /\ page'.mailtos = page.mailtos
          /\ page'.location = page.location
          /\ \A i \in Submitted : page'.subs[i] = page.subs[i]]_vars

\* the second handler has turned a submission away and nothing was sent
C36_Witness ==
  /\ page.script = "second"
  /\ \E i \in Submitted : page.subs[i].result = "invalid"
  /\ \A i \in Submitted : page.subs[i].pc = "done"
  /\ arrivals = 0
  /\ page.status = "error"

\* the pages whose script disables the submit button
InitButton == InitClient /\ page.script \in {"first", "second"}

SpecButton == InitButton /\ [][NextClient]_vars

\* the submissions whose handler has not returned
Running == {i \in Submitted : page.subs[i].pc # "done"}

\* C37: in the handlers that disable the submit button, the button is
\* disabled and reads Sending... as long as a submission is under way, and
\* it is enabled with its original label whenever none is, whatever the way
\* the handler returned.
C37_ButtonFollowsRequest ==
  page.script \in {"first", "second"} =>
    IF Running # {}
      THEN page.disabled /\ page.label = "Sending..."
      ELSE ~page.disabled /\ page.label = "Send"

\* the first handler has returned from a failed call and from a rejected
\* form, and the button is enabled again
C37_Witness ==
  /\ page.script = "first"
  /\ Running = {}
  /\ \E i \in Submitted : page.subs[i].result = "failure"
  /\ \E i \in Submitted : page.subs[i].result = "invalid"
  /\ ~page.disabled

(***************************************************************************)
(* SpecClientLive: the timers of a displayed page fire                     *)
(***************************************************************************)
SpecClientLive ==
  InitClient /\ [][NextClient]_vars /\ WF_vars(fallback) /\ WF_vars(redirect)

\* the call of submission i ends in the step as a failure: the fetch
\* rejects or the response is not 2xx
CallFails(i) ==
  \/ failed(i)
  \/ responded(i) /\ ~Is2xx(page.subs[i].reply.status)

\* the number of calls that failed
Failed ==
  Cardinality({i \in Submitted : page.subs[i].result = "failure"})

\* a failed call shows an error, starts one fallback timer and no redirect
FailureHandled ==
  [][\A i \in Submitted :
       CallFails(i) =>
          /\ page'.subs[i].result = "failure"
          /\ page'.status = "error"
          /\ page'.fallbacks = page.fallbacks + 1
          /\ page'.mailtos = page.mailtos
          /\ page'.redirects = page.redirects
          /\ page'.location = page.location]_vars

\* the mail client is opened only by a timer, once for each
OpenedByTimer ==
  [][page'.mailtos # page.mailtos =>
       /\ page'.mailtos = page.mailtos + 1
       /\ page'.fallbacks = page.fallbacks - 1]_vars

====
